---------------------------- MODULE Spec2Model ----------------------------
(***************************************************************************)
(* Model of the resolution engine of src/llm/resolver.py.                  *)
(*                                                                         *)
(* A Python str is modelled as a sequence of one-character strings, so     *)
(* that parsing (Clause._normalize, the split on the disjunction glyph)    *)
(* and rendering (the f-strings of resolve) are computed character by      *)
(* character.  The two non-ASCII glyphs of the source are written with     *)
(* ASCII stand-ins: "~" is the negation marker U+00AC and "|" is the       *)
(* disjunction glyph U+2228.                                               *)
(***************************************************************************)
EXTENDS Integers, Sequences, FiniteSets, TLC

(***************************************************************************)
(* Characters and the str methods the engine uses                          *)
(***************************************************************************)
NegMark == "~"
OrGlyph == "|"

LowerChars == {"a", "b", "c", "d", "e", "f", "g", "h", "i", "j", "k", "l", "m",
               "n", "o", "p", "q", "r", "s", "t", "u", "v", "w", "x", "y", "z"}
UpperChars == {"A", "B", "C", "D", "E", "F", "G", "H", "I", "J", "K", "L", "M",
               "N", "O", "P", "Q", "R", "S", "T", "U", "V", "W", "X", "Y", "Z"}
DigitChars == {"0", "1", "2", "3", "4", "5", "6", "7", "8", "9"}
\* \w of the re module: letters, digits and the underscore
WordChars == LowerChars \cup UpperChars \cup DigitChars \cup {"_"}
\* the only whitespace character of the modelled alphabet
Whitespace == {" "}

\* the modelled alphabet in code-point order (the order sorted() compares by)
CharOrder ==
  <<" ", "(", ")", ",",
    "0", "1", "2", "3", "4", "5", "6", "7", "8", "9",
    "A", "B", "C", "D", "E", "F", "G", "H", "I", "J", "K", "L", "M",
    "N", "O", "P", "Q", "R", "S", "T", "U", "V", "W", "X", "Y", "Z",
    "_",
    "a", "b", "c", "d", "e", "f", "g", "h", "i", "j", "k", "l", "m",
    "n", "o", "p", "q", "r", "s", "t", "u", "v", "w", "x", "y", "z",
    "~", "|">>

Ord(ch) == CHOOSE i \in 1..Len(CharOrder) : CharOrder[i] = ch

\* s < t for two str values (lexicographic by code point)
RECURSIVE StrLess(_, _)
StrLess(s, t) ==
  IF t = <<>> THEN FALSE
  ELSE IF s = <<>> THEN TRUE
  ELSE IF s[1] = t[1] THEN StrLess(Tail(s), Tail(t))
  ELSE Ord(s[1]) < Ord(t[1])

\* index of the first character of s outside set (Len(s)+1 when there is none)
FirstNotIn(s, set) ==
  IF \A i \in 1..Len(s) : s[i] \in set THEN Len(s) + 1
  ELSE CHOOSE i \in 1..Len(s) :
         s[i] \notin set /\ \A k \in 1..(i - 1) : s[k] \in set

\* index of the last character of s outside set (0 when there is none)
LastNotIn(s, set) ==
  IF \A i \in 1..Len(s) : s[i] \in set THEN 0
  ELSE CHOOSE i \in 1..Len(s) :
         s[i] \notin set /\ \A k \in (i + 1)..Len(s) : s[k] \in set

\* str.lstrip(chars), str.rstrip(), str.strip()
LStrip(s, set) == SubSeq(s, FirstNotIn(s, set), Len(s))
RStrip(s, set) == SubSeq(s, 1, LastNotIn(s, set))
Strip(s) == RStrip(LStrip(s, Whitespace), Whitespace)

\* str.startswith(ch) for a one-character prefix
StartsWith(s, ch) == Len(s) > 0 /\ s[1] = ch

\* index of the first occurrence of ch in s at or after position from (0: none)
FindFrom(s, ch, from) ==
  IF \E i \in from..Len(s) : s[i] = ch
  THEN CHOOSE i \in from..Len(s) :
         s[i] = ch /\ \A k \in from..(i - 1) : s[k] # ch
  ELSE 0

\* str.split(ch): the pieces of s between the occurrences of ch
RECURSIVE Split(_, _)
Split(s, ch) ==
  LET p == FindFrom(s, ch, 1)
  IN  IF p = 0 THEN <<s>>
      ELSE <<SubSeq(s, 1, p - 1)>> \o Split(SubSeq(s, p + 1, Len(s)), ch)

\* sep.join(parts)
RECURSIVE Join(_, _)
Join(parts, sep) ==
  IF parts = <<>> THEN <<>>
  ELSE IF Len(parts) = 1 THEN parts[1]
  ELSE parts[1] \o sep \o Join(Tail(parts), sep)

\* re.split(r'\s*|\s*', s): split at the disjunction glyph, the whitespace
\* around each glyph belonging to the separator
ReSplitOr(s) ==
  LET raw == Split(s, OrGlyph)
      n   == Len(raw)
  IN  [k \in 1..n |->
         LET a == IF k > 1 THEN LStrip(raw[k], Whitespace) ELSE raw[k]
         IN  IF k < n THEN RStrip(a, Whitespace) ELSE a]

\* set(list)
ToSet(seq) == {seq[i] : i \in 1..Len(seq)}


(***************************************************************************)
(* Clause: literal strings, their parsed form, equality and hash           *)
(***************************************************************************)
\* re.match(r'(\w+)\((.*?)\)', s): a maximal run of word characters, an
\* opening parenthesis, and the text up to the first closing parenthesis.
\* Gives the position of that closing parenthesis, 0 when there is no match.
ReMatchClose(s) ==
  LET n == FirstNotIn(s, WordChars) - 1
  IN  IF n >= 1 /\ n + 1 <= Len(s) /\ s[n + 1] = "("
      THEN FindFrom(s, ")", n + 2)
      ELSE 0

\* a variant of the loop body that keeps unparsed text as given, negation
\* marker and surrounding blanks included
NormalizeLiteral_KeepsGivenText(lit) ==
  LET is_negated == StartsWith(lit, NegMark)
      lit_clean  == Strip(LStrip(lit, {NegMark}))
      close      == ReMatchClose(lit_clean)
      n          == FirstNotIn(lit_clean, WordChars) - 1
  IN  IF close # 0
      THEN LET pred_name == SubSeq(lit_clean, 1, n)
               args_str  == SubSeq(lit_clean, n + 2, close - 1)
               parts     == Split(args_str, ",")
               args      == IF args_str # <<>>
                            THEN [k \in 1..Len(parts) |-> Strip(parts[k])]
                            ELSE <<>>
           IN  <<is_negated, pred_name, args>>
      ELSE <<is_negated, lit, <<>> >>

\* one iteration of the loop of Clause._normalize
NormalizeLiteral(lit) ==
  LET is_negated == StartsWith(lit, NegMark)
      lit_clean  == Strip(LStrip(lit, {NegMark}))
      close      == ReMatchClose(lit_clean)
      n          == FirstNotIn(lit_clean, WordChars) - 1
  IN  IF close # 0
      THEN LET pred_name == SubSeq(lit_clean, 1, n)
               args_str  == SubSeq(lit_clean, n + 2, close - 1)
               parts     == Split(args_str, ",")
               args      == IF args_str # <<>>
                            THEN [k \in 1..Len(parts) |-> Strip(parts[k])]
                            ELSE <<>>
           IN  <<is_negated, pred_name, args>>
      ELSE <<is_negated, lit_clean, <<>> >>

_normalize(literals) ==
  [k \in 1..Len(literals) |-> NormalizeLiteral(literals[k])]

\* Clause.__init__
Clause(literals) ==
  [literals |-> literals, normalized |-> _normalize(literals)]

\* sorted(list of str): stable insertion into an ascending list
RECURSIVE sorted(_)
sorted(seq) ==
  IF seq = <<>> THEN <<>>
  ELSE LET rest == sorted(SubSeq(seq, 1, Len(seq) - 1))
           x    == seq[Len(seq)]
           \* x goes after every element that is not greater than it
           pos  == Cardinality({k \in 1..Len(rest) : ~StrLess(x, rest[k])})
       IN  SubSeq(rest, 1, pos) \o <<x>> \o SubSeq(rest, pos + 1, Len(rest))

\* a variant of Clause.__eq__ that compares the sorted literal lists, as
\* __hash__ does, instead of the literal sets
eq_SortedLists(self, other) == sorted(self.literals) = sorted(other.literals)

\* Clause.__eq__
__eq__(self, other) == ToSet(self.literals) = ToSet(other.literals)

\* Clause.__hash__: the hash of the sorted tuple of the literal strings.
\* The built-in hash of a tuple of str is taken to be collision-free on the
\* handful of tuples of one run, so the tuple itself stands for its hash.
__hash__(self) == sorted(self.literals)

\* `clause in container` for a set or a dict keyed by clauses: a member with
\* the same hash that compares equal
Contains(keys, clause) ==
  \E k \in keys : __hash__(k) = __hash__(clause) /\ __eq__(k, clause)

\* set(list of clauses): insert one by one, an element already contained
\* is not inserted again
RECURSIVE SetOf(_)
SetOf(seq) ==
  IF seq = <<>> THEN {}
  ELSE LET rest == SetOf(SubSeq(seq, 1, Len(seq) - 1))
           c    == seq[Len(seq)]
       IN  IF Contains(rest, c) THEN rest ELSE rest \cup {c}

(***************************************************************************)
(* Substitution and unify                                                  *)
(***************************************************************************)
EmptyMapping == [v \in {} |-> v]

\* a variant of Substitution.apply that leaves every term as it is
apply_NoSubstitution(mapping, term) == term

\* Substitution.apply
apply(mapping, term) == IF term \in DOMAIN mapping THEN mapping[term] ELSE term

\* Substitution.compose
compose(self, other) ==
  [v \in (DOMAIN self) \cup (DOMAIN other) |->
     IF v \in DOMAIN self THEN apply(other, self[v]) ELSE other[v]]

\* a variant of _is_variable that knows only the letters its comment names
is_variable_XYZOnly(term) == term \in {<<"x">>, <<"y">>, <<"z">>}

\* _is_variable
is_variable(term) == Len(term) = 1 /\ term[1] \in LowerChars

\* the three outcomes of a call of unify
UnifyNone == [tag |-> "none"]
UnifyRecursionError == [tag |-> "RecursionError"]
UnifyOk(mapping) == [tag |-> "ok", mapping |-> mapping]

\* a variant of unify in which two distinct constants do not fail but are
\* passed over
RECURSIVE unify_ConstantsPassedOver(_, _, _, _)
unify_ConstantsPassedOver(term1, term2, subst, stack) ==
  IF Len(term1) # Len(term2) THEN UnifyNone
  ELSE IF term1 = <<>> THEN UnifyOk(subst)
  ELSE IF <<term1, term2>> \in stack THEN UnifyRecursionError
  ELSE
    LET t1 == term1[1]
        t2 == term2[1]
        deeper == stack \cup {<<term1, term2>>}
    IN  IF t1 = t2
        THEN unify_ConstantsPassedOver(Tail(term1), Tail(term2), subst, {})
        ELSE IF is_variable(t1)
        THEN IF t1 \in DOMAIN subst
             THEN unify_ConstantsPassedOver(<<subst[t1]>> \o Tail(term1), term2,
                                            subst, deeper)
             ELSE unify_ConstantsPassedOver(Tail(term1), Tail(term2),
                        compose(subst, [v \in {t1} |-> t2]), {})
        ELSE IF is_variable(t2)
        THEN unify_ConstantsPassedOver(term2, term1, subst, deeper)
        ELSE unify_ConstantsPassedOver(Tail(term1), Tail(term2), subst, {})

\* a variant of unify without the case of lines 104-105: a variable on the
\* right of a constant is not bound
RECURSIVE unify_LeftVariableOnly(_, _, _, _)
unify_LeftVariableOnly(term1, term2, subst, stack) ==
  IF Len(term1) # Len(term2) THEN UnifyNone
  ELSE IF term1 = <<>> THEN UnifyOk(subst)
  ELSE IF <<term1, term2>> \in stack THEN UnifyRecursionError
  ELSE
    LET t1 == term1[1]
        t2 == term2[1]
        deeper == stack \cup {<<term1, term2>>}
    IN  IF t1 = t2
        THEN unify_LeftVariableOnly(Tail(term1), Tail(term2), subst, {})
        ELSE IF is_variable(t1)
        THEN IF t1 \in DOMAIN subst
             THEN unify_LeftVariableOnly(<<subst[t1]>> \o Tail(term1), term2,
                                         subst, deeper)
             ELSE unify_LeftVariableOnly(Tail(term1), Tail(term2),
                        compose(subst, [v \in {t1} |-> t2]), {})
        ELSE UnifyNone

\* a variant of unify without the length test of lines 80-81: it stops at
\* the end of the shorter list
RECURSIVE unify_NoArityCheck(_, _, _, _)
unify_NoArityCheck(term1, term2, subst, stack) ==
  IF term1 = <<>> \/ term2 = <<>> THEN UnifyOk(subst)
  ELSE IF <<term1, term2>> \in stack THEN UnifyRecursionError
  ELSE
    LET t1 == term1[1]
        t2 == term2[1]
        deeper == stack \cup {<<term1, term2>>}
    IN  IF t1 = t2
        THEN unify_NoArityCheck(Tail(term1), Tail(term2), subst, {})
        ELSE IF is_variable(t1)
        THEN IF t1 \in DOMAIN subst
             THEN unify_NoArityCheck(<<subst[t1]>> \o Tail(term1), term2,
                                     subst, deeper)
             ELSE unify_NoArityCheck(Tail(term1), Tail(term2),
                        compose(subst, [v \in {t1} |-> t2]), {})
        ELSE IF is_variable(t2)
        THEN unify_NoArityCheck(term2, term1, subst, deeper)
        ELSE UnifyNone

\* unify.  stack holds the (term1, term2) of the enclosing calls made since
\* the substitution last changed: a call whose arguments are already on the
\* stack recurses without end and Python raises RecursionError.
RECURSIVE unify(_, _, _, _)
unify(term1, term2, subst, stack) ==
  IF Len(term1) # Len(term2) THEN UnifyNone
  ELSE IF term1 = <<>> THEN UnifyOk(subst)
  ELSE IF <<term1, term2>> \in stack THEN UnifyRecursionError
  ELSE
    LET t1 == term1[1]
        t2 == term2[1]
        deeper == stack \cup {<<term1, term2>>}
    IN  IF t1 = t2 THEN unify(Tail(term1), Tail(term2), subst, {})
        ELSE IF is_variable(t1)
        THEN IF t1 \in DOMAIN subst
             THEN unify(<<subst[t1]>> \o Tail(term1), term2, subst, deeper)
             \* the occurs test of line 97 has an empty body
             ELSE unify(Tail(term1), Tail(term2),
                        compose(subst, [v \in {t1} |-> t2]), {})
        ELSE IF is_variable(t2) THEN unify(term2, term1, subst, deeper)
        ELSE UnifyNone

(***************************************************************************)
(* resolve                                                                 *)
(***************************************************************************)
NegPrefix(n) == IF n THEN <<NegMark>> ELSE <<>>

\* the literal text built for a resolvent (lines 133-137)
RenderLiteral(n, p, args) ==
  IF args # <<>>
  THEN NegPrefix(n) \o p \o <<"(">> \o Join(args, <<",", " ">>) \o <<")">>
  ELSE NegPrefix(n) \o p

\* lit1_str, lit2_str: the selected literal as logged (lines 155-156)
SelectedLiteralStr(n, p, args) ==
  NegPrefix(n) \o p \o <<"(">> \o Join(args, <<",", " ">>) \o <<")">>

\* the literals of a clause other than the selected one, substitution applied
OtherLiterals(clause, selected, mapping) ==
  LET kept == SelectSeq(clause.normalized, LAMBDA t : t # selected)
  IN  [k \in 1..Len(kept) |->
         RenderLiteral(kept[k][1], kept[k][2],
                       [a \in 1..Len(kept[k][3]) |-> apply(mapping, kept[k][3][a])])]

\* list(dict.fromkeys(seq)): first occurrences, in order
RECURSIVE Dedup(_)
Dedup(seq) ==
  IF seq = <<>> THEN <<>>
  ELSE LET front == Dedup(SubSeq(seq, 1, Len(seq) - 1))
           x     == seq[Len(seq)]
       IN  IF x \in ToSet(front) THEN front ELSE Append(front, x)

\* the body of the two nested loops of resolve for the literal pair (a, b):
\* "skip" (not complementary or not unifiable), "raise", or one result
ResolveLiterals(clause1, clause2, a, b) ==
  LET l1 == clause1.normalized[a]
      l2 == clause2.normalized[b]
  IN  IF l1[1] # l2[1] /\ l1[2] = l2[2]
      THEN LET u == unify(l1[3], l2[3], EmptyMapping, {})
           IN  IF u.tag = "RecursionError" THEN [tag |-> "raise"]
               ELSE IF u.tag = "none" THEN [tag |-> "skip"]
               ELSE [tag    |-> "result",
                     clause |-> Clause(Dedup(OtherLiterals(clause1, l1, u.mapping)
                                             \o OtherLiterals(clause2, l2, u.mapping))),
                     subst  |-> u.mapping,
                     lit1   |-> SelectedLiteralStr(l1[1], l1[2], l1[3]),
                     lit2   |-> SelectedLiteralStr(l2[1], l2[2], l2[3])]
      ELSE [tag |-> "skip"]

\* resolve from the q-th literal pair on (row-major over clause1 x clause2)
RECURSIVE ResolveFrom(_, _, _)
ResolveFrom(clause1, clause2, q) ==
  LET n2 == Len(clause2.normalized)
      total == Len(clause1.normalized) * n2
  IN  IF q > total THEN [raised |-> FALSE, results |-> <<>>]
      ELSE LET r    == ResolveLiterals(clause1, clause2,
                                       ((q - 1) \div n2) + 1, ((q - 1) % n2) + 1)
               rest == ResolveFrom(clause1, clause2, q + 1)
           IN  IF r.tag = "raise" \/ rest.raised
               THEN [raised |-> TRUE, results |-> <<>>]
               ELSE IF r.tag = "skip" THEN rest
               ELSE [raised  |-> FALSE,
                     results |-> <<[clause |-> r.clause, subst |-> r.subst,
                                    lit1 |-> r.lit1, lit2 |-> r.lit2]>>
                                 \o rest.results]

\* resolve(clause1, clause2): the list of results, or an exception out of unify
resolve(clause1, clause2) == ResolveFrom(clause1, clause2, 1)


(***************************************************************************)
(* Inputs of resolution_proof considered by the model                      *)
(***************************************************************************)
\* ["~Human(x) | Mortal(x)", "Human(socrates)", "~Mortal(socrates)"]
SyllogismInput ==
  <<<<"~", "H", "u", "m", "a", "n", "(", "x", ")", " ", "|", " ", "M", "o", "r", "t", "a", "l", "(", "x", ")">>,
    <<"H", "u", "m", "a", "n", "(", "s", "o", "c", "r", "a", "t", "e", "s", ")">>,
    <<"~", "M", "o", "r", "t", "a", "l", "(", "s", "o", "c", "r", "a", "t", "e", "s", ")">>>>

\* ["P(a)", "Q(b)"]
NoContradictionInput ==
  <<<<"P", "(", "a", ")">>,
    <<"Q", "(", "b", ")">>>>

\* ["P(x, y, x)", "~P(y, x, K)"]
RebindingInput ==
  <<<<"P", "(", "x", ",", " ", "y", ",", " ", "x", ")">>,
    <<"~", "P", "(", "y", ",", " ", "x", ",", " ", "K", ")">>>>

\* ["P(A) | P(A)", "P(A) | Q(A)", "~Q(A)"]
RepeatedLiteralInput ==
  <<<<"P", "(", "A", ")", " ", "|", " ", "P", "(", "A", ")">>,
    <<"P", "(", "A", ")", " ", "|", " ", "Q", "(", "A", ")">>,
    <<"~", "Q", "(", "A", ")">>>>

\* ["P(x) | Q(y)", "Q(y) | P(x) | Q(y)"]
ReorderedInput ==
  <<<<"P", "(", "x", ")", " ", "|", " ", "Q", "(", "y", ")">>,
    <<"Q", "(", "y", ")", " ", "|", " ", "P", "(", "x", ")", " ", "|", " ", "Q", "(", "y", ")">>>>

\* a rule that permutes the 15 arguments of N by a permutation of order 105
\* (cycles of length 3, 5 and 7) and one ground fact: every pass derives
\* exactly one new fact
RotationInput ==
  <<<<"~", "N", "(", "a", ",", " ", "b", ",", " ", "c", ",", " ", "d", ",", " ", "e", ",", " ", "f", ",", " ", "g", ",", " ", "h", ",", " ", "i", ",", " ", "j", ",", " ", "k", ",", " ", "l", ",", " ", "m", ",", " ", "n", ",", " ", "o", ")", " ", "|", " ", "N", "(", "b", ",", " ", "c", ",", " ", "a", ",", " ", "e", ",", " ", "f", ",", " ", "g", ",", " ", "h", ",", " ", "d", ",", " ", "j", ",", " ", "k", ",", " ", "l", ",", " ", "m", ",", " ", "n", ",", " ", "o", ",", " ", "i", ")">>,
    <<"N", "(", "A", ",", " ", "B", ",", " ", "C", ",", " ", "D", ",", " ", "E", ",", " ", "F", ",", " ", "G", ",", " ", "H", ",", " ", "I", ",", " ", "J", ",", " ", "K", ",", " ", "L", ",", " ", "M", ",", " ", "N", ",", " ", "O", ")">>>>

\* ["P(A)", "~P(A) | Q", "~Q"]
GroundChainInput ==
  <<<<"P", "(", "A", ")">>,
    <<"~", "P", "(", "A", ")", " ", "|", " ", "Q">>,
    <<"~", "Q">>>>

\* ["P( ) | R( )", "~P( )", "~R( )"]: ground literals with one blank argument
BlankArgumentInput ==
  <<<<"P", "(", " ", ")", " ", "|", " ", "R", "(", " ", ")">>,
    <<"~", "P", "(", " ", ")">>,
    <<"~", "R", "(", " ", ")">>>>

\* ground clause texts from which the ground inputs are drawn:
\* P(A), ~P(A), ~P(B), ~P(A) | Q, ~Q
GroundPool ==
  {<<"P", "(", "A", ")">>,
   <<"~", "P", "(", "A", ")">>,
   <<"~", "P", "(", "B", ")">>,
   <<"~", "P", "(", "A", ")", " ", "|", " ", "Q">>,
   <<"~", "Q">>}

\* longest ground input drawn from GroundPool
MaxGroundClauses == 2

GroundInputs ==
  UNION {[1..n -> GroundPool] : n \in 0..MaxGroundClauses}

Inputs ==
  {SyllogismInput, NoContradictionInput, RebindingInput, RepeatedLiteralInput,
   ReorderedInput, RotationInput, GroundChainInput, BlankArgumentInput}
    \cup GroundInputs

(***************************************************************************)
(* resolution_proof: state                                                 *)
(***************************************************************************)
VARIABLES
  clauses,           \* the argument: a list of clause texts
  pc,                \* position in resolution_proof, or how it ended
  clause_objects,    \* the parsed input clauses
  log,               \* the list of log lines
  clause_ids,        \* dict Clause -> int of get_clause_id
  next_clause_id,
  all_clauses,       \* set of Clause
  new_clauses,       \* set of Clause
  step_num,
  iteration,
  current_new,       \* list(new_clauses) of the running pass
  all_clauses_list,  \* list(all_clauses) of the running pass
  i,                 \* position of clause1 in all_clauses_list
  j,                 \* position of clause2 in current_new
  resolutions,       \* resolve(clause1, clause2) of the running pair
  k,                 \* position in resolutions
  resolved_pairs,    \* history: the (ID of clause1, ID of clause2) of every
                     \* call of resolve made so far
  call,              \* a direct call of Clause, unify or resolve
  ret,               \* what that call returned
  other,             \* the locals of a second, suspended resolution_proof
  active,            \* which of the two invocations is running
  MODELS,            \* the module-level list of model names of client.py
  llm_pc,            \* position in _call_llm, or how it ended
  model,             \* position of the for loop of _call_llm in MODELS
  last_error,        \* last_error of _call_llm
  requests           \* history: the calls of client.chat.completions.create
                     \* made so far, each with its outcome

\* the locals of the running resolution_proof
locals == <<clauses, pc, clause_objects, log, clause_ids, next_clause_id,
            all_clauses, new_clauses, step_num, iteration, current_new,
            all_clauses_list, i, j, resolutions, k, resolved_pairs>>

\* what lies outside the running resolution_proof
\* the state of _call_llm
llm == <<MODELS, llm_pc, model, last_error, requests>>

outside == <<call, ret, other, active, llm>>

vars == <<locals, outside>>

NoCall == [fn |-> "none"]
NotReturned == [tag |-> "pending"]
NoFrame == <<>>

\* Python's None, and a value that is not None
None == [some |-> FALSE]
Some(value) == [some |-> TRUE, value |-> value]

\* MODELS, client.py lines 13-16
ShippedMODELS ==
  <<"meta-llama/llama-3.3-70b-instruct:free",
    "deepseek/deepseek-r1-0528-qwen3-8b:free">>

\* _call_llm is not called
NoLLMCall ==
  /\ MODELS = ShippedMODELS
  /\ llm_pc = "none"
  /\ model = 1
  /\ last_error = None
  /\ requests = <<>>

\* no direct call, no second invocation
Alone ==
  /\ call = NoCall
  /\ ret = NotReturned
  /\ other = NoFrame
  /\ active = 1
  /\ NoLLMCall

max_iterations == 100

\* largest set whose enumeration orders are all explored; a larger set is
\* enumerated in the order of its clause IDs only
MaxPermSize == 5

(***************************************************************************)
(* The clause registry and the log lines                                   *)
(***************************************************************************)
\* stand-in for the text of the empty clause (line 190)
EmptyClauseText == <<"#", "e", "m", "p", "t", "y">>

\* clause_to_str; Clause.__repr__ joins the literals with " | "
clause_to_str(clause) ==
  IF clause.literals # <<>>
  THEN Join(clause.literals, <<" ", OrGlyph, " ">>)
  ELSE EmptyClauseText

\* the key under which a dict or set holds clause
KeyOf(keys, clause) ==
  CHOOSE key \in keys : __hash__(key) = __hash__(clause) /\ __eq__(key, clause)

\* a variant of get_clause_id without the test of line 181: every call hands
\* the clause the next ID
Registered_AlwaysNextId(reg, clause) ==
  [ids  |-> [c \in (DOMAIN reg.ids) \cup {clause} |->
               IF c = clause THEN reg.next ELSE reg.ids[c]],
   next |-> reg.next + 1]

\* get_clause_id, as the registry [ids, next] it leaves behind ...
Registered(reg, clause) ==
  IF ~Contains(DOMAIN reg.ids, clause)
  THEN [ids  |-> [c \in (DOMAIN reg.ids) \cup {clause} |->
                    IF c = clause THEN reg.next ELSE reg.ids[c]],
        next |-> reg.next + 1]
  ELSE reg

\* ... and the ID it returns
get_clause_id(reg, clause) ==
  LET after == Registered(reg, clause)
  IN  after.ids[KeyOf(DOMAIN after.ids, clause)]

\* format_clause: "[#id] text"
format_clause(reg, clause) ==
  [id |-> get_clause_id(reg, clause), text |-> clause_to_str(clause)]

HeaderLine(count)      == [kind |-> "initial", count |-> count]
InputLine(ref)         == [kind |-> "input", ref |-> ref]
StepLine(n, contra)    == [kind |-> "step", step |-> n, contradiction |-> contra]
Clause1Line(ref)       == [kind |-> "clause1", ref |-> ref]
Clause2Line(ref)       == [kind |-> "clause2", ref |-> ref]
UnificationLine(s, l1, l2) ==
  [kind |-> "unification", subst |-> s, lit1 |-> l1, lit2 |-> l2]
ResultLine(ref, contra) == [kind |-> "result", ref |-> ref, contradiction |-> contra]
NotFoundLine(steps)    == [kind |-> "not_found", steps |-> steps]
TotalLine(total)       == [kind |-> "total", total |-> total]
LimitLine(limit)       == [kind |-> "limit", limit |-> limit]

\* the loop of lines 196-197 over the first n input clauses:
\* the registry and the log lines it produces
RECURSIVE LogInputs(_, _)
LogInputs(objects, n) ==
  IF n = 0 THEN [reg |-> [ids |-> EmptyMapping, next |-> 1], lines |-> <<>>]
  ELSE LET before == LogInputs(objects, n - 1)
       IN  [reg   |-> Registered(before.reg, objects[n]),
            lines |-> Append(before.lines,
                             InputLine(format_clause(before.reg, objects[n])))]

\* the five lines of a step block (lines 226-230 and 237-241) and the
\* registry after the three format_clause calls
StepBlock(reg, n, clause1, clause2, res, contra) ==
  LET reg1 == Registered(reg, clause1)
      reg2 == Registered(reg1, clause2)
      reg3 == Registered(reg2, res.clause)
  IN  [reg   |-> reg3,
       lines |-> <<StepLine(n, contra),
                   Clause1Line(format_clause(reg, clause1)),
                   Clause2Line(format_clause(reg1, clause2)),
                   UnificationLine(res.subst, res.lit1, res.lit2),
                   ResultLine(format_clause(reg2, res.clause), contra)>>]

(***************************************************************************)
(* Enumeration order of a set of clauses                                   *)
(***************************************************************************)
RECURSIVE AllOrderings(_)
AllOrderings(S) ==
  IF S = {} THEN {<<>>}
  ELSE UNION {{<<c>> \o rest : rest \in AllOrderings(S \ {c})} : c \in S}

\* the members of S in ascending order of their clause ID
ByClauseId(reg, S) ==
  LET keys == [n \in 1..(reg.next - 1) |->
                 CHOOSE c \in DOMAIN reg.ids : reg.ids[c] = n]
  IN  SelectSeq(keys, LAMBDA c : Contains(S, c))

\* list(S) for a set S: the iteration order of a Python set follows the
\* (per-process randomised) string hashes, so any order can come out
Orderings(reg, S) ==
  IF Cardinality(S) <= MaxPermSize THEN AllOrderings(S)
  ELSE {ByClauseId(reg, S)}


(***************************************************************************)
(* resolution_proof: steps                                                 *)
(***************************************************************************)
\* lines 171-174: one clause text to a Clause
ParseClause(clause_str) ==
  LET pieces == ReSplitOr(Strip(clause_str))
  IN  Clause([m \in 1..Len(pieces) |-> Strip(pieces[m])])

InitFor(inputs) ==
  /\ clauses \in inputs
  /\ pc = "start"
  /\ clause_objects = <<>>
  /\ log = <<>>
  /\ clause_ids = EmptyMapping
  /\ next_clause_id = 1
  /\ all_clauses = {}
  /\ new_clauses = {}
  /\ step_num = 1
  /\ iteration = 0
  /\ current_new = <<>>
  /\ all_clauses_list = <<>>
  /\ i = 1
  /\ j = 1
  /\ resolutions = <<>>
  /\ k = 1
  /\ resolved_pairs = {}

Init == InitFor(Inputs) /\ Alone

\* lines 170-205: parse the inputs, log them, set up the two sets
Start ==
  /\ pc = "start"
  /\ LET objects == [n \in 1..Len(clauses) |-> ParseClause(clauses[n])]
         logged  == LogInputs(objects, Len(objects))
     IN  /\ clause_objects' = objects
         /\ log' = <<HeaderLine(Len(objects))>> \o logged.lines
         /\ clause_ids' = logged.reg.ids
         /\ next_clause_id' = logged.reg.next
         /\ all_clauses' = SetOf(objects)
         /\ new_clauses' = SetOf(objects)
  /\ step_num' = 1
  /\ iteration' = 0
  /\ pc' = "while"
  /\ UNCHANGED <<outside, resolved_pairs, clauses, current_new, all_clauses_list, i, j, resolutions, k>>

\* a variant of lines 207-213 that pairs the new clauses with one another
\* only: all_clauses_list is taken from new_clauses
BeginPass_NewAgainstNewOnly ==
  /\ pc = "while"
  /\ iteration < max_iterations
  /\ iteration' = iteration + 1
  /\ \E cn \in Orderings([ids |-> clause_ids, next |-> next_clause_id], new_clauses) :
       current_new' = cn
  /\ \E al \in Orderings([ids |-> clause_ids, next |-> next_clause_id], new_clauses) :
       all_clauses_list' = al
  /\ new_clauses' = {}
  /\ i' = 1
  /\ j' = 1
  /\ pc' = "for"
  /\ UNCHANGED <<outside, resolved_pairs, clauses, clause_objects, log, clause_ids, next_clause_id,
                 all_clauses, step_num, resolutions, k>>

\* lines 207-213: the loop test holds; snapshot the two sets as lists
BeginPass ==
  /\ pc = "while"
  /\ iteration < max_iterations
  /\ iteration' = iteration + 1
  /\ \E cn \in Orderings([ids |-> clause_ids, next |-> next_clause_id], new_clauses) :
       current_new' = cn
  /\ \E al \in Orderings([ids |-> clause_ids, next |-> next_clause_id], all_clauses) :
       all_clauses_list' = al
  /\ new_clauses' = {}
  /\ i' = 1
  /\ j' = 1
  /\ pc' = "for"
  /\ UNCHANGED <<outside, resolved_pairs, clauses, clause_objects, log, clause_ids, next_clause_id,
                 all_clauses, step_num, resolutions, k>>

\* lines 207, 250-251: the loop test fails
IterationLimit ==
  /\ pc = "while"
  /\ ~(iteration < max_iterations)
  /\ log' = Append(log, LimitLine(max_iterations))
  /\ pc' = "limit"
  /\ UNCHANGED <<outside, resolved_pairs, clauses, clause_objects, clause_ids, next_clause_id, all_clauses,
                 new_clauses, step_num, iteration, current_new, all_clauses_list,
                 i, j, resolutions, k>>

\* the two for loops have a current pair
InPair == pc = "for" /\ i <= Len(all_clauses_list) /\ j <= Len(current_new)
clause1 == all_clauses_list[i]
clause2 == current_new[j]

\* the ID under which a clause is registered in clause_ids
IdOf(clause) ==
  IF clause \in DOMAIN clause_ids
  THEN clause_ids[clause]
  ELSE clause_ids[KeyOf(DOMAIN clause_ids, clause)]

\* the two for loops move on to the next pair
NextPair ==
  /\ IF j < Len(current_new)
     THEN i' = i /\ j' = j + 1
     ELSE i' = i + 1 /\ j' = 1
  /\ resolutions' = <<>>
  /\ k' = 1
  /\ pc' = "for"

\* lines 218-219
SkipEqualPair ==
  /\ InPair
  /\ __eq__(clause1, clause2)
  /\ NextPair
  /\ UNCHANGED <<outside, resolved_pairs, clauses, clause_objects, log, clause_ids, next_clause_id,
                 all_clauses, new_clauses, step_num, iteration, current_new,
                 all_clauses_list>>

\* line 221, resolve returns
ResolvePair ==
  /\ InPair
  /\ ~__eq__(clause1, clause2)
  /\ resolved_pairs' = resolved_pairs \cup {<<IdOf(clause1), IdOf(clause2)>>}
  /\ LET r == resolve(clause1, clause2)
     IN  /\ ~r.raised
         /\ IF r.results = <<>>
            THEN NextPair
            ELSE /\ resolutions' = r.results
                 /\ k' = 1
                 /\ pc' = "results"
                 /\ UNCHANGED <<i, j>>
  /\ UNCHANGED <<outside, clauses, clause_objects, log, clause_ids, next_clause_id,
                 all_clauses, new_clauses, step_num, iteration, current_new,
                 all_clauses_list>>

\* line 221, unify raises RecursionError: nothing in resolve or
\* resolution_proof catches it
ResolveRaises ==
  /\ InPair
  /\ ~__eq__(clause1, clause2)
  /\ resolved_pairs' = resolved_pairs \cup {<<IdOf(clause1), IdOf(clause2)>>}
  /\ resolve(clause1, clause2).raised
  /\ pc' = "raised"
  /\ UNCHANGED <<outside, clauses, clause_objects, log, clause_ids, next_clause_id,
                 all_clauses, new_clauses, step_num, iteration, current_new,
                 all_clauses_list, i, j, resolutions, k>>

\* the loop of line 223 has a current result
InResult == pc = "results" /\ k <= Len(resolutions)

\* the loop of line 223 moves on
NextResult ==
  IF k < Len(resolutions)
  THEN /\ k' = k + 1
       /\ pc' = "results"
       /\ UNCHANGED <<i, j, resolutions>>
  ELSE NextPair

\* a variant of lines 225-231 that logs the contradiction but goes on with
\* the loop instead of returning
Contradiction_NoReturn ==
  /\ InResult
  /\ resolutions[k].clause.literals = <<>>
  /\ LET block == StepBlock([ids |-> clause_ids, next |-> next_clause_id],
                            step_num, clause1, clause2, resolutions[k], TRUE)
     IN  /\ log' = log \o block.lines
         /\ clause_ids' = block.reg.ids
         /\ next_clause_id' = block.reg.next
  /\ NextResult
  /\ UNCHANGED <<outside, resolved_pairs, clauses, clause_objects, all_clauses, new_clauses, step_num,
                 iteration, current_new, all_clauses_list>>

\* lines 225-231: the result is the empty clause
Contradiction ==
  /\ InResult
  /\ resolutions[k].clause.literals = <<>>
  /\ LET block == StepBlock([ids |-> clause_ids, next |-> next_clause_id],
                            step_num, clause1, clause2, resolutions[k], TRUE)
     IN  /\ log' = log \o block.lines
         /\ clause_ids' = block.reg.ids
         /\ next_clause_id' = block.reg.next
  /\ pc' = "found"
  /\ UNCHANGED <<outside, resolved_pairs, clauses, clause_objects, all_clauses, new_clauses, step_num,
                 iteration, current_new, all_clauses_list, i, j, resolutions, k>>

\* lines 234-242: a non-empty result that is not in all_clauses
AddResolvent ==
  /\ InResult
  /\ resolutions[k].clause.literals # <<>>
  /\ ~Contains(all_clauses, resolutions[k].clause)
  /\ all_clauses' = all_clauses \cup {resolutions[k].clause}
  /\ new_clauses' = IF Contains(new_clauses, resolutions[k].clause)
                    THEN new_clauses
                    ELSE new_clauses \cup {resolutions[k].clause}
  /\ LET block == StepBlock([ids |-> clause_ids, next |-> next_clause_id],
                            step_num, clause1, clause2, resolutions[k], FALSE)
     IN  /\ log' = log \o block.lines
         /\ clause_ids' = block.reg.ids
         /\ next_clause_id' = block.reg.next
  /\ step_num' = step_num + 1
  /\ NextResult
  /\ UNCHANGED <<outside, resolved_pairs, clauses, clause_objects, iteration, current_new, all_clauses_list>>

\* line 234: a non-empty result that is in all_clauses already
KnownResolvent ==
  /\ InResult
  /\ resolutions[k].clause.literals # <<>>
  /\ Contains(all_clauses, resolutions[k].clause)
  /\ NextResult
  /\ UNCHANGED <<outside, resolved_pairs, clauses, clause_objects, log, clause_ids, next_clause_id,
                 all_clauses, new_clauses, step_num, iteration, current_new,
                 all_clauses_list>>

\* the for loops are exhausted
PassDone == pc = "for" /\ ~(i <= Len(all_clauses_list) /\ j <= Len(current_new))

\* a variant of lines 245-248 that reports step_num, the number of the next
\* step, as the number of steps taken
Saturated_CountsNextStep ==
  /\ PassDone
  /\ new_clauses = {}
  /\ log' = log \o <<NotFoundLine(step_num), TotalLine(Cardinality(all_clauses))>>
  /\ pc' = "saturated"
  /\ UNCHANGED <<outside, resolved_pairs, clauses, clause_objects, clause_ids, next_clause_id, all_clauses,
                 new_clauses, step_num, iteration, current_new, all_clauses_list,
                 i, j, resolutions, k>>

\* lines 245-248: the pass derived nothing
Saturated ==
  /\ PassDone
  /\ new_clauses = {}
  /\ log' = log \o <<NotFoundLine(step_num - 1), TotalLine(Cardinality(all_clauses))>>
  /\ pc' = "saturated"
  /\ UNCHANGED <<outside, resolved_pairs, clauses, clause_objects, clause_ids, next_clause_id, all_clauses,
                 new_clauses, step_num, iteration, current_new, all_clauses_list,
                 i, j, resolutions, k>>

\* line 245 is false: back to the loop test.  The two lists and the loop
\* positions are dead from here on (lines 209 and 213 assign them before
\* their next use) and are reset.
NextPass ==
  /\ PassDone
  /\ new_clauses # {}
  /\ pc' = "while"
  /\ current_new' = <<>>
  /\ all_clauses_list' = <<>>
  /\ i' = 1
  /\ j' = 1
  /\ UNCHANGED <<outside, resolved_pairs, clauses, clause_objects, log, clause_ids, next_clause_id,
                 all_clauses, new_clauses, step_num, iteration, resolutions, k>>

Next ==
  \/ Start
  \/ BeginPass
  \/ IterationLimit
  \/ SkipEqualPair
  \/ ResolvePair
  \/ ResolveRaises
  \/ Contradiction
  \/ AddResolvent
  \/ KnownResolvent
  \/ Saturated
  \/ NextPass

Spec == Init /\ [][Next]_vars

\* resolution_proof has returned (found, log)
Returned == pc \in {"found", "saturated", "limit"}
\* resolution_proof is still executing
Running == pc \in {"start", "while", "for", "results"}
found == pc = "found"


(***************************************************************************)
(* Properties                                                              *)
(***************************************************************************)
LastLine == log[Len(log)]

\* the lines of the log that show a clause as "[#N] text"
ClauseLineKinds == {"input", "clause1", "clause2", "result"}
ClauseLines == {n \in 1..Len(log) : log[n].kind \in ClauseLineKinds}

\* C1: resolution_proof is total: for every input it returns a (found, log)
\* pair, and no exception propagates out of parsing, unify, resolve or the
\* saturation loop.
C1_NoExceptionPropagates == pc # "raised"

\* C2: for any input resolution_proof performs at most 100 passes of its
\* main loop and then returns (it is either still executing or has
\* returned); when the run ends at the iteration limit, 100 passes have been
\* made, found = false and the last log line is the iteration-limit line.
C2_AtMost100PassesThenReturns ==
  /\ iteration <= max_iterations
  /\ Returned \/ Running
  /\ pc = "limit"
       => /\ iteration = max_iterations
          /\ ~found
          /\ LastLine = LimitLine(max_iterations)

\* C3: as soon as a resolve call of the saturation loop yields a resolvent
\* with zero literals, resolution_proof returns found = true: the empty
\* resolvent is the first result handled, handling it adds nothing to
\* all_clauses or the frontier, it appends the contradiction block (the two
\* source clauses, the substitution, the selected literals, the empty-clause
\* result) as the last five log lines, and no step follows the return.
C3_EmptyClauseReturnsAtOnce ==
  [][ /\ pc' = "results" /\ (\E m \in 1..Len(resolutions') :
                               resolutions'[m].clause.literals = <<>>)
        => k' = 1 /\ resolutions'[1].clause.literals = <<>>
      /\ pc = "results" /\ resolutions[k].clause.literals = <<>>
        => /\ pc' = "found"
           /\ all_clauses' = all_clauses
           /\ new_clauses' = new_clauses
           /\ Len(log') = Len(log) + 5
           /\ SubSeq(log', 1, Len(log)) = log
           /\ LET n == Len(log)
              IN  /\ log'[n + 1] = StepLine(step_num, TRUE)
                  /\ log'[n + 2].kind = "clause1"
                  /\ log'[n + 2].ref.text = clause_to_str(all_clauses_list[i])
                  /\ log'[n + 3].kind = "clause2"
                  /\ log'[n + 3].ref.text = clause_to_str(current_new[j])
                  /\ log'[n + 4] = UnificationLine(resolutions[k].subst,
                                                   resolutions[k].lit1,
                                                   resolutions[k].lit2)
                  /\ log'[n + 5].kind = "result"
                  /\ log'[n + 5].ref.text = EmptyClauseText
      /\ pc = "found" => pc' = "found" /\ UNCHANGED vars
    ]_vars

\* C3 witness: the run has returned found = true in its second pass, the
\* log ending with the empty-clause result line
C3_Witness ==
  /\ pc = "found"
  /\ iteration = 2
  /\ LastLine.kind = "result"
  /\ LastLine.ref.text = EmptyClauseText

\* the number of clauses among the inputs that are distinct by clause equality
DistinctInputCount ==
  Cardinality({ToSet(clause_objects[n].literals) : n \in 1..Len(clause_objects)})

\* the number of clauses derived so far (one logged resolution step each)
DerivedCount ==
  Cardinality({n \in 1..Len(log) : log[n].kind = "step" /\ ~log[n].contradiction})

\* C4: when a full pass adds no new clause and yields no empty clause,
\* resolution_proof returns found = false and its final log line reports a
\* clause total equal to the size of the clause universe, the distinct input
\* clauses plus the derived clauses; for P(a), Q(b) this happens on the first
\* pass with total 2.
C4_SaturationReportsUniverseSize ==
  pc = "saturated"
    => /\ ~found
       /\ LastLine.kind = "total"
       /\ LastLine.total = DistinctInputCount + DerivedCount
       /\ clauses = NoContradictionInput => iteration = 1 /\ LastLine.total = 2

MortalSocratesText ==
  <<"M", "o", "r", "t", "a", "l", "(", "s", "o", "c", "r", "a", "t", "e", "s", ")">>

\* C5: for the syllogism input resolution_proof returns found = true under
\* every enumeration order of the clause sets (a run that is not executing
\* any more has returned true),
\* and in every such run a resolution step whose result renders as
\* Mortal(socrates) is logged before the final empty-clause step.
C5_SyllogismCloses ==
  clauses = SyllogismInput
    => /\ found \/ Running
       /\ found
            => \E n \in 1..(Len(log) - 5) :
                 /\ log[n].kind = "result"
                 /\ ~log[n].contradiction
                 /\ log[n].ref.text = MortalSocratesText

\* C5 witness: the syllogism run has returned found = true
C5_Witness == clauses = SyllogismInput /\ found

\* no argument of an input clause is a variable
GroundInput ==
  \A n \in 1..Len(clause_objects) :
    \A m \in 1..Len(clause_objects[n].normalized) :
      \A a \in 1..Len(clause_objects[n].normalized[m][3]) :
        ~is_variable(clause_objects[n].normalized[m][3][a])

\* the ground atoms (predicate, arguments) of the input clauses
InputAtoms ==
  UNION {{<<clause_objects[n].normalized[m][2], clause_objects[n].normalized[m][3]>> :
            m \in 1..Len(clause_objects[n].normalized)} :
         n \in 1..Len(clause_objects)}

\* some truth assignment to the atoms makes a literal of every input clause true
InputSatisfiable ==
  \E v \in [InputAtoms -> BOOLEAN] :
    \A n \in 1..Len(clause_objects) :
      \E m \in 1..Len(clause_objects[n].normalized) :
        LET t == clause_objects[n].normalized[m]
        IN  v[<<t[2], t[3]>>] # t[1]

LiteralSetOfText(text) ==
  IF text = EmptyClauseText THEN {}
  ELSE LET pieces == ReSplitOr(text)
       IN  {Strip(pieces[m]) : m \in 1..Len(pieces)}

\* C7: within one run the clause-to-ID mapping is stable and injective: two
\* clauses shown in the log carry the same [#N] exactly when they are
\* clause-equal (same literal-string set), and the IDs are handed out in
\* first-seen order from 1, the inputs first.
C7_ClauseIdsStableInjective ==
  /\ \A m, n \in ClauseLines :
       (LiteralSetOfText(log[m].ref.text) = LiteralSetOfText(log[n].ref.text))
         <=> (log[m].ref.id = log[n].ref.id)
  /\ \A n \in ClauseLines :
       log[n].ref.id \in
         1..(Cardinality({log[m].ref.id : m \in {q \in ClauseLines : q < n}}) + 1)
  /\ \A n \in 1..Len(clause_objects) :
       Len(log) > n => log[n + 1].kind = "input"

\* C8: the clause universe only grows and is deduplicated by clause equality:
\* no member of all_clauses is ever removed, a non-empty resolvent is added to
\* all_clauses and the frontier and logged as a step exactly when no
\* clause-equal clause is in all_clauses, and all_clauses never holds two
\* clause-equal members.
C8_UniverseGrowsDeduplicated ==
  [][ /\ all_clauses \subseteq all_clauses'
      /\ \A a, b \in all_clauses' : __eq__(a, b) => a = b
      /\ pc = "results" /\ resolutions[k].clause.literals # <<>>
           => LET res == resolutions[k].clause
              IN  IF \E c \in all_clauses : __eq__(c, res)
                  THEN /\ all_clauses' = all_clauses
                       /\ new_clauses' = new_clauses
                       /\ log' = log
                  ELSE /\ all_clauses' = all_clauses \cup {res}
                       /\ new_clauses' = new_clauses \cup {res}
                       /\ Len(log') = Len(log) + 5
                       /\ log'[Len(log) + 1] = StepLine(step_num, FALSE)
    ]_vars

\* the clause objects at hand: the parsed inputs, the universe, and the
\* results of the running resolve call
ClausesAtHand ==
  ToSet(clause_objects) \cup all_clauses
    \cup {resolutions[m].clause : m \in 1..Len(resolutions)}

\* C9: clause hashing depends only on the set of literal strings: two
\* clause-equal clauses have the same hash, so membership of a clause in
\* all_clauses agrees with clause equality.
C9_HashFollowsEquality ==
  /\ \A a, b \in ClausesAtHand : __eq__(a, b) => __hash__(a) = __hash__(b)
  /\ \A c \in ClausesAtHand :
       Contains(all_clauses, c) <=> \E d \in all_clauses : __eq__(d, c)

\* the pairs of clauses the run compares: the inputs with each other and the
\* pair of line 218
ComparedPairs ==
  (ToSet(clause_objects) \X ToSet(clause_objects))
    \cup (IF InPair THEN {<<clause1, clause2>>} ELSE {})

\* C10: clause equality is insensitive to literal order and to repeated
\* literals: two clauses are equal exactly when every literal string of each
\* occurs in the other, and the clause parsed from "P(x) | Q(y)" equals the
\* clause parsed from "Q(y) | P(x) | Q(y)".
C10_EqualityIgnoresOrderAndRepeats ==
  /\ \A pair \in ComparedPairs :
       LET a == pair[1].literals
           b == pair[2].literals
       IN  __eq__(pair[1], pair[2])
             <=> /\ \A p \in 1..Len(a) : \E q \in 1..Len(b) : a[p] = b[q]
                 /\ \A q \in 1..Len(b) : \E p \in 1..Len(a) : a[p] = b[q]
  /\ clauses = ReorderedInput /\ pc # "start"
       => __eq__(clause_objects[1], clause_objects[2])

\* C10 witness: the two texts of the example are parsed into a two-literal
\* and a three-literal clause and the loop is at the pair made of them
C10_Witness ==
  /\ clauses = ReorderedInput
  /\ InPair
  /\ Len(clause1.literals) = 2
  /\ Len(clause2.literals) = 3

(***************************************************************************)
(* Direct calls of Clause, unify and resolve                               *)
(*                                                                         *)
(* A second specification: one call of one function on arguments drawn     *)
(* from bounded sets, and its return.                                      *)
(***************************************************************************)
\* longest literal text given to Clause
MaxTextLen == 4
\* longest argument list given to unify
MaxTerms == 2
\* most literals of a clause given to resolve
MaxLiterals == 2

TextAlphabet == {NegMark, "P", "A", "(", ")", " "}
\* the texts of up to n characters
Texts(n) == UNION {[1..m -> TextAlphabet] : m \in 0..n}

\* three variables and two constants
Terms == {<<"a">>, <<"b">>, <<"x">>, <<"K">>,
          <<"s", "o", "c", "r", "a", "t", "e", "s">>}
\* the argument lists of up to n terms
TermLists(n) == UNION {[1..m -> Terms] : m \in 0..n}

\* P(A), ~P(A, B), Q(x), ~Q(A)
ArityPool ==
  {<<"P", "(", "A", ")">>, <<"~", "P", "(", "A", ",", " ", "B", ")">>,
   <<"Q", "(", "x", ")">>, <<"~", "Q", "(", "A", ")">>}
\* P(x), Q(x), ~P(A), Q(A)
SubstPool ==
  {<<"P", "(", "x", ")">>, <<"Q", "(", "x", ")">>,
   <<"~", "P", "(", "A", ")">>, <<"Q", "(", "A", ")">>}
\* P(A), P( A ), ~P(A), Q(A)
RepeatPool ==
  {<<"P", "(", "A", ")">>, <<"P", "(", " ", "A", " ", ")">>,
   <<"~", "P", "(", "A", ")">>, <<"Q", "(", "A", ")">>}
\* P(x, y, x), ~P(y, x, K)
RebindingPool ==
  {<<"P", "(", "x", ",", " ", "y", ",", " ", "x", ")">>,
   <<"~", "P", "(", "y", ",", " ", "x", ",", " ", "K", ")">>}
LiteralPools == {ArityPool, SubstPool, RepeatPool, RebindingPool}

\* the literal lists of one to n literals of pool
ClausesOver(pool, n) == UNION {[1..m -> pool] : m \in 1..n}

ClauseCall(literals) == [fn |-> "Clause", literals |-> literals]
UnifyCall(term1, term2) == [fn |-> "unify", term1 |-> term1, term2 |-> term2]
ResolveCall(literals1, literals2) ==
  [fn |-> "resolve", clause1 |-> literals1, clause2 |-> literals2]

\* a marker literal R that no text of Texts parses to
MarkerText == <<"R">>
NegMarkerText == <<NegMark, "R">>

\* the calls considered: Clause on one text; unify on two argument lists;
\* resolve on two clauses over one pool, on R | t against ~R, and on t
\* against ~t, for every text t
ClauseCalls(n) == {ClauseCall(<<t>>) : t \in Texts(n)}
UnifyCalls(n) == {UnifyCall(a, b) : a, b \in TermLists(n)}
ResolveCalls(n, len) ==
  UNION {{ResolveCall(c, d) : c, d \in ClausesOver(pool, n)} : pool \in LiteralPools}
  \cup {ResolveCall(<<MarkerText, t>>, <<NegMarkerText>>) : t \in Texts(len)}
  \cup {ResolveCall(<<t>>, <<<<NegMark>> \o t>>) : t \in Texts(len)}

\* no resolution_proof is running
NoInvocation ==
  /\ clauses = <<>>
  /\ pc = "none"
  /\ clause_objects = <<>>
  /\ log = <<>>
  /\ clause_ids = EmptyMapping
  /\ next_clause_id = 1
  /\ all_clauses = {}
  /\ new_clauses = {}
  /\ step_num = 1
  /\ iteration = 0
  /\ current_new = <<>>
  /\ all_clauses_list = <<>>
  /\ i = 1
  /\ j = 1
  /\ resolutions = <<>>
  /\ k = 1
  /\ resolved_pairs = {}
  /\ other = NoFrame
  /\ active = 1

InitCalls ==
  /\ call \in ClauseCalls(MaxTextLen) \cup UnifyCalls(MaxTerms)
              \cup ResolveCalls(MaxLiterals, MaxTextLen)
  /\ ret = NotReturned
  /\ NoInvocation
  /\ NoLLMCall

Returns(value) ==
  /\ ret = NotReturned
  /\ ret' = value
  /\ UNCHANGED <<locals, call, other, active, llm>>

\* Clause(literals), lines 9-13
CallClause ==
  /\ call.fn = "Clause"
  /\ Returns(Clause(call.literals))

\* unify(term1, term2), lines 76-108; a RecursionError propagates
CallUnify ==
  /\ call.fn = "unify"
  /\ Returns(unify(call.term1, call.term2, EmptyMapping, {}))

\* resolve(Clause(...), Clause(...)), lines 117-165
CallResolve ==
  /\ call.fn = "resolve"
  /\ Returns(resolve(Clause(call.clause1), Clause(call.clause2)))

NextCalls ==
  \/ CallClause
  \/ CallUnify
  \/ CallResolve

SpecCalls == InitCalls /\ [][NextCalls]_vars

HasReturned == ret # NotReturned

(***************************************************************************)
(* Properties of the direct calls                                          *)
(***************************************************************************)
Socrates == <<"s", "o", "c", "r", "a", "t", "e", "s">>
\* the terms of Terms that are no single lowercase letter
ConstantTerms == {<<"K">>, Socrates}

\* C11, as stated: unify(["a"], ["a"]) succeeds with an empty substitution,
\* and unify(["a"], ["b"]) fails (returns no substitution).
C11_DistinctTermsFail ==
  HasReturned =>
    /\ call = UnifyCall(<<<<"a">>>>, <<<<"a">>>>) => ret = UnifyOk(EmptyMapping)
    /\ call = UnifyCall(<<<<"a">>>>, <<<<"b">>>>) => ret = UnifyNone

\* C11, amended: unify(["a"], ["a"]) succeeds with an empty substitution;
\* unify(["a"], ["b"]) succeeds with {a: b}, a and b being single lowercase
\* letters, hence variables; unify of two one-element lists holding two
\* distinct constants fails, and of one constant twice succeeds with an
\* empty substitution.
C11_DistinctConstantsFail ==
  HasReturned =>
    /\ call = UnifyCall(<<<<"a">>>>, <<<<"a">>>>) => ret = UnifyOk(EmptyMapping)
    /\ call = UnifyCall(<<<<"a">>>>, <<<<"b">>>>)
         => ret = UnifyOk([v \in {<<"a">>} |-> <<"b">>])
    /\ \A c, d \in ConstantTerms :
         call = UnifyCall(<<c>>, <<d>>)
           => ret = IF c = d THEN UnifyOk(EmptyMapping) ELSE UnifyNone

\* unify(["a"], ["b"]) has returned a substitution
C11_Witness ==
  /\ call = UnifyCall(<<<<"a">>>>, <<<<"b">>>>)
  /\ HasReturned
  /\ ret.tag = "ok"

\* the terms of Terms that are single lowercase letters
VariableTerms == {<<"a">>, <<"b">>, <<"x">>}

\* C12: unifying a one-element list holding an unbound variable with a
\* one-element list holding a constant succeeds with exactly the one
\* binding variable -> constant, whichever side the variable is on.
C12_VariableBindsToConstant ==
  HasReturned =>
    \A v \in VariableTerms, c \in ConstantTerms :
      call \in {UnifyCall(<<v>>, <<c>>), UnifyCall(<<c>>, <<v>>)}
        => ret = UnifyOk([w \in {v} |-> c])

\* unify(["socrates"], ["x"]) has returned
C12_Witness ==
  /\ call = UnifyCall(<<Socrates>>, <<<<"x">>>>)
  /\ HasReturned
  /\ ret.tag = "ok"
  /\ DOMAIN ret.mapping = {<<"x">>}

PAText == <<"P", "(", "A", ")">>
NotPABText == <<"~", "P", "(", "A", ",", " ", "B", ")">>
QxText == <<"Q", "(", "x", ")">>
NotQAText == <<"~", "Q", "(", "A", ")">>

\* the positions (a, b) at which literals1 holds text s and literals2 text t
PositionsOf(literals1, literals2, s, t) ==
  {p \in (1..Len(literals1)) \X (1..Len(literals2)) :
     literals1[p[1]] = s /\ literals2[p[2]] = t}

\* C13: for two complementary literals of one predicate name whose argument
\* lists differ in length, unify fails and resolve emits no resolvent for
\* that pair, while every other literal pair of the two clauses is still
\* tried and yields its resolvent.  Over the clauses of ArityPool, P(A) and
\* ~P(A, B) are such a pair and Q(x), ~Q(A) resolve: the results are one for
\* each position of Q(x) against ~Q(A), and no other.
C13_ArityMismatchBlocksOnePair ==
  HasReturned =>
    /\ call.fn = "unify" /\ Len(call.term1) # Len(call.term2) => ret = UnifyNone
    /\ call.fn = "resolve" /\ ToSet(call.clause1 \o call.clause2) \subseteq ArityPool
         => /\ ~ret.raised
            /\ Len(ret.results) =
                 Cardinality(PositionsOf(call.clause1, call.clause2, QxText, NotQAText)
                             \cup PositionsOf(call.clause1, call.clause2, NotQAText, QxText))
            /\ \A n \in 1..Len(ret.results) :
                 /\ {ret.results[n].lit1, ret.results[n].lit2} = {QxText, NotQAText}
                 /\ ret.results[n].subst = [v \in {<<"x">>} |-> <<"A">>]
    /\ call = ResolveCall(<<PAText, QxText>>, <<NotPABText, NotQAText>>)
         => /\ Len(ret.results) = 1
            /\ ret.results[1].clause.literals = <<PAText, NotPABText>>

\* resolve of P(A) | Q(x) with ~P(A, B) | ~Q(A) has returned its one result
C13_Witness ==
  /\ call = ResolveCall(<<PAText, QxText>>, <<NotPABText, NotQAText>>)
  /\ HasReturned
  /\ Len(ret.results) = 1

\* the literals of a clause at every position but `selected`, rendered
\* after the substitution
OthersByPosition(clause, selected, mapping) ==
  LET kept == SelectSeq([p \in 1..Len(clause.normalized) |-> p],
                        LAMBDA p : p # selected)
  IN  [n \in 1..Len(kept) |->
         LET t == clause.normalized[kept[n]]
         IN  RenderLiteral(t[1], t[2],
                           [a \in 1..Len(t[3]) |-> apply(mapping, t[3][a])])]

\* the literal pairs (a, b) of two clauses, clause1 outermost
LiteralPairs(c1, c2) ==
  [q \in 1..(Len(c1.normalized) * Len(c2.normalized)) |->
     <<((q - 1) \div Len(c2.normalized)) + 1, ((q - 1) % Len(c2.normalized)) + 1>>]

\* equal predicate name, opposite negation, arguments that unify
ResolvablePair(c1, c2, p) ==
  LET l1 == c1.normalized[p[1]]
      l2 == c2.normalized[p[2]]
  IN  /\ l1[1] # l2[1]
      /\ l1[2] = l2[2]
      /\ unify(l1[3], l2[3], EmptyMapping, {}).tag # "none"

\* C14: resolve(clauseA, clauseB) returns one result for every literal pair
\* with equal predicate name, opposite negation and unifiable arguments, and
\* each result's literal list is every literal of clauseA other than the
\* selected one, then every literal of clauseB other than the selected one,
\* each rendered after the pair's substitution, repeated render-strings
\* removed keeping the first occurrence.
C14_OneResolventPerUnifiablePair ==
  HasReturned /\ call.fn = "resolve" =>
    LET c1 == Clause(call.clause1)
        c2 == Clause(call.clause2)
        pairs == SelectSeq(LiteralPairs(c1, c2), LAMBDA p : ResolvablePair(c1, c2, p))
    IN  /\ ~ret.raised
        /\ Len(ret.results) = Len(pairs)
        /\ \A n \in 1..Len(pairs) :
             ret.results[n].clause.literals =
               Dedup(OthersByPosition(c1, pairs[n][1], ret.results[n].subst)
                     \o OthersByPosition(c2, pairs[n][2], ret.results[n].subst))

\* s without its longest prefix of characters of set
WithoutLeading(s, set) ==
  LET m == CHOOSE m \in 0..Len(s) :
             /\ \A q \in 1..m : s[q] \in set
             /\ m = Len(s) \/ s[m + 1] \notin set
  IN  SubSeq(s, m + 1, Len(s))

\* s without its longest suffix of characters of set
WithoutTrailing(s, set) ==
  LET m == CHOOSE m \in 0..Len(s) :
             /\ \A q \in (m + 1)..Len(s) : s[q] \in set
             /\ m = 0 \/ s[m] \notin set
  IN  SubSeq(s, 1, m)

\* s is identifier(args) followed by any text: one or more word characters,
\* an opening parenthesis and, somewhere after it, a closing parenthesis
IsIdentifierArgs(s) ==
  \E p \in 2..Len(s) :
    /\ s[p] = "("
    /\ \A q \in 1..(p - 1) : s[q] \in WordChars
    /\ \E r \in (p + 1)..Len(s) : s[r] = ")"

\* C17, as stated: literal text that does not match identifier(args) is
\* parsed, without raising, as a nullary literal whose predicate name is the
\* raw text after removal of the negation marker, and it resolves against
\* its own negation.
C17_MalformedTextIsRawAtom ==
  HasReturned =>
    /\ call.fn = "Clause" =>
         LET t   == call.literals[1]
             raw == IF StartsWith(t, NegMark) THEN Tail(t) ELSE t
         IN  ~IsIdentifierArgs(raw)
               => ret.normalized = << <<StartsWith(t, NegMark), raw, <<>> >> >>
    /\ /\ call.fn = "resolve"
       /\ Len(call.clause1) = 1
       /\ call.clause2 = << <<NegMark>> \o call.clause1[1] >>
       /\ ~StartsWith(call.clause1[1], NegMark)
       /\ ~IsIdentifierArgs(call.clause1[1])
       => /\ ~ret.raised
          /\ Len(ret.results) = 1
          /\ ret.results[1].clause.literals = <<>>

\* the text left of a literal when every leading negation marker and then
\* the blanks around the rest are removed
MarkersAndBlanksRemoved(t) ==
  WithoutTrailing(WithoutLeading(WithoutLeading(t, {NegMark}), Whitespace),
                  Whitespace)

\* C17, amended: literal text that, with every leading negation marker and
\* then the surrounding blanks removed, does not match identifier(args) is
\* parsed, without raising, as a nullary literal whose predicate name is
\* that remaining text, negated iff the given text starts with a negation
\* marker; and such a literal resolves against its own negation to the
\* empty clause.
C17_MalformedTextIsTrimmedAtom ==
  HasReturned =>
    /\ call.fn = "Clause" =>
         LET t    == call.literals[1]
             rest == MarkersAndBlanksRemoved(t)
         IN  ~IsIdentifierArgs(rest)
               => ret.normalized = << <<StartsWith(t, NegMark), rest, <<>> >> >>
    /\ /\ call.fn = "resolve"
       /\ Len(call.clause1) = 1
       /\ call.clause2 = << <<NegMark>> \o call.clause1[1] >>
       /\ ~StartsWith(call.clause1[1], NegMark)
       /\ ~IsIdentifierArgs(MarkersAndBlanksRemoved(call.clause1[1]))
       => /\ ~ret.raised
          /\ Len(ret.results) = 1
          /\ ret.results[1].clause.literals = <<>>

\* resolve of the malformed "A P" with "~A P" has returned its one result,
\* whose parent clauses hold the atoms named "A P"
C17_Witness ==
  /\ call = ResolveCall(<< <<"A", " ", "P">> >>, << <<NegMark, "A", " ", "P">> >>)
  /\ HasReturned
  /\ Len(ret.results) = 1
  /\ ret.results[1].clause.literals = <<>>

\* [~]identifier or [~]identifier(arg, ...): the clause-text grammar's
\* literal, the arguments being any text without parentheses
IsGrammarLiteral(t) ==
  LET body == IF StartsWith(t, NegMark) THEN Tail(t) ELSE t
      n    == Len(body)
  IN  \/ n >= 1 /\ \A q \in 1..n : body[q] \in WordChars
      \/ \E p \in 2..(n - 1) :
           /\ \A q \in 1..(p - 1) : body[q] \in WordChars
           /\ body[p] = "("
           /\ body[n] = ")"
           /\ \A q \in (p + 1)..(n - 1) : body[q] \notin {"(", ")", NegMark}

\* C18: round trip.  For every literal with constant arguments, parsing it,
\* rendering the parsed triple as [~]name(arg1, arg2, ...), or [~]name when
\* it has no arguments, and parsing that rendering again yields the same
\* triple.  resolve renders the literal t that it keeps from R | t against
\* ~R and Clause parses the rendering.
C18_RenderedLiteralReparsesEqual ==
  /\ HasReturned
  /\ call.fn = "resolve"
  /\ Len(call.clause1) = 2
  /\ call.clause1[1] = MarkerText
  /\ call.clause2 = <<NegMarkerText>>
  /\ IsGrammarLiteral(call.clause1[2])
  => /\ Len(ret.results) = 1
     /\ ret.results[1].clause.normalized = Clause(<<call.clause1[2]>>).normalized

\* C19: whenever unify succeeds on two argument lists, the substitution it
\* returns is a unifier: applied term by term, as Substitution.apply does,
\* to both lists it yields two identical lists, also where a variable is
\* bound after another variable was bound to it.
C19_UnifySuccessIsUnifier ==
  HasReturned /\ call.fn = "unify" /\ ret.tag = "ok" =>
    [n \in 1..Len(call.term1) |-> apply(ret.mapping, call.term1[n])]
      = [n \in 1..Len(call.term2) |-> apply(ret.mapping, call.term2[n])]

(***************************************************************************)
(* Further properties of resolution_proof                                  *)
(***************************************************************************)
\* C15: resolution_proof([]) returns found = false on the first pass without
\* resolving any pair, and its log reports saturation with a clause total of
\* zero.
C15_EmptyInputSaturatesAtOnce ==
  clauses = <<>> /\ pc # "none" =>
    /\ pc \in {"start", "while", "for", "saturated"}
    /\ iteration <= 1
    /\ pc = "while" => iteration = 0
    /\ ~InPair
    /\ resolutions = <<>>
    /\ step_num = 1
    /\ pc = "saturated" =>
         /\ iteration = 1
         /\ log = <<HeaderLine(0), NotFoundLine(0), TotalLine(0)>>

\* resolution_proof([]) has returned
C15_Witness == clauses = <<>> /\ pc = "saturated"

\* C20: when resolution_proof ends saturated, every two clauses of the final
\* universe that are not clause-equal have been passed to resolve in at
\* least one orientation during the run, and every non-empty resolvent of
\* the calls made is a member of the final universe.
C20_SaturationResolvedEveryPair ==
  pc = "saturated" =>
    \A A, B \in all_clauses :
      /\ ~__eq__(A, B) =>
           \/ <<IdOf(A), IdOf(B)>> \in resolved_pairs
           \/ <<IdOf(B), IdOf(A)>> \in resolved_pairs
      /\ <<IdOf(A), IdOf(B)>> \in resolved_pairs =>
           LET r == resolve(A, B)
           IN  /\ ~r.raised
               /\ \A n \in 1..Len(r.results) :
                    r.results[n].clause.literals # <<>>
                      => Contains(all_clauses, r.results[n].clause)

\* a run has saturated in its second pass, over a universe with a derived
\* clause
C20_Witness ==
  /\ pc = "saturated"
  /\ iteration >= 2
  /\ Cardinality(all_clauses) >= 3
  /\ Cardinality(resolved_pairs) >= 3

(***************************************************************************)
(* Two invocations of resolution_proof, interleaved                        *)
(*                                                                         *)
(* resolution_proof keeps all it works on in local variables (lines        *)
(* 170-205) and in objects only they refer to; the module has no global.   *)
(* A third specification runs two invocations: one is running, on the      *)
(* variables above, the other is suspended with its locals saved in        *)
(* `other`, and a switch may come between any two steps.                   *)
(***************************************************************************)
\* the locals of the running invocation
Frame ==
  [clauses |-> clauses, pc |-> pc, clause_objects |-> clause_objects, log |-> log,
   clause_ids |-> clause_ids, next_clause_id |-> next_clause_id,
   all_clauses |-> all_clauses, new_clauses |-> new_clauses,
   step_num |-> step_num, iteration |-> iteration, current_new |-> current_new,
   all_clauses_list |-> all_clauses_list, i |-> i, j |-> j,
   resolutions |-> resolutions, k |-> k, resolved_pairs |-> resolved_pairs]

\* the locals of an invocation that has not started
NewFrame(input) ==
  [clauses |-> input, pc |-> "start", clause_objects |-> <<>>, log |-> <<>>,
   clause_ids |-> EmptyMapping, next_clause_id |-> 1,
   all_clauses |-> {}, new_clauses |-> {},
   step_num |-> 1, iteration |-> 0, current_new |-> <<>>,
   all_clauses_list |-> <<>>, i |-> 1, j |-> 1,
   resolutions |-> <<>>, k |-> 1, resolved_pairs |-> {}]

\* ["P(A)", "~P(A)"]
ContradictionInput ==
  <<<<"P", "(", "A", ")">>, <<"~", "P", "(", "A", ")">>>>
\* ["P(A)", "~P(A) | Q"]
DerivationInput ==
  <<<<"P", "(", "A", ")">>, <<"~", "P", "(", "A", ")", " ", "|", " ", "Q">>>>
ConcurrentInputs == {ContradictionInput, DerivationInput, RebindingInput}

InitConcurrent ==
  /\ InitFor(ConcurrentInputs)
  /\ \E input \in ConcurrentInputs : other = NewFrame(input)
  /\ active = 1
  /\ call = NoCall
  /\ ret = NotReturned
  /\ NoLLMCall

\* a variant of Switch for a clause registry kept in module globals: the
\* switch leaves clause_ids and next_clause_id as they are
Switch_RegistryShared ==
  /\ clauses' = other.clauses
  /\ pc' = other.pc
  /\ clause_objects' = other.clause_objects
  /\ log' = other.log
  /\ all_clauses' = other.all_clauses
  /\ new_clauses' = other.new_clauses
  /\ step_num' = other.step_num
  /\ iteration' = other.iteration
  /\ current_new' = other.current_new
  /\ all_clauses_list' = other.all_clauses_list
  /\ i' = other.i
  /\ j' = other.j
  /\ resolutions' = other.resolutions
  /\ k' = other.k
  /\ resolved_pairs' = other.resolved_pairs
  /\ other' = Frame
  /\ active' = 3 - active
  /\ UNCHANGED <<call, ret, llm, clause_ids, next_clause_id>>

\* the running invocation is suspended and the other one resumes: every
\* local of resolution_proof, the closures' clause_ids and next_clause_id
\* included (lines 179-187), belongs to the call
Switch ==
  /\ clauses' = other.clauses
  /\ pc' = other.pc
  /\ clause_objects' = other.clause_objects
  /\ log' = other.log
  /\ clause_ids' = other.clause_ids
  /\ next_clause_id' = other.next_clause_id
  /\ all_clauses' = other.all_clauses
  /\ new_clauses' = other.new_clauses
  /\ step_num' = other.step_num
  /\ iteration' = other.iteration
  /\ current_new' = other.current_new
  /\ all_clauses_list' = other.all_clauses_list
  /\ i' = other.i
  /\ j' = other.j
  /\ resolutions' = other.resolutions
  /\ k' = other.k
  /\ resolved_pairs' = other.resolved_pairs
  /\ other' = Frame
  /\ active' = 3 - active
  /\ UNCHANGED <<call, ret, llm>>

\* the inputs of ConcurrentInputs return well before max_iterations passes
NextConcurrent ==
  \/ Start
  \/ BeginPass
  \/ SkipEqualPair
  \/ ResolvePair
  \/ ResolveRaises
  \/ Contradiction
  \/ AddResolvent
  \/ KnownResolvent
  \/ Saturated
  \/ NextPass
  \/ Switch

SpecConcurrent == InitConcurrent /\ [][NextConcurrent]_vars

\* the locals of invocation p, running or suspended
LocalsOf(p) == IF active = p THEN Frame ELSE other

\* C16: concurrent invocations of resolution_proof on independent inputs do
\* not interfere.  Under every interleaving, the universe, frontier, log and
\* ID registry (all the locals) of an invocation change only in a step that
\* this invocation takes while it is running, and that step is a step of
\* resolution_proof run alone; so each invocation's run, and the (found, log)
\* it returns, is one it has when run alone.
C16_InvocationsDoNotInterfere ==
  [][\A p \in {1, 2} :
       LocalsOf(p)' # LocalsOf(p) => active = p /\ active' = p /\ Next]_vars

\* both invocations have returned, one with a contradiction and one
\* saturated, each with steps in its log
C16_Witness ==
  /\ other # NoFrame
  /\ pc = "found"
  /\ other.pc = "saturated"
  /\ other.step_num > 1

\* C21: completeness on ground clauses within the cap: for ground input
\* clauses that no truth assignment satisfies, resolution_proof never ends
\* saturated, and when it returns without having used up the iteration cap
\* it returns found = true.
C21_GroundCompleteness ==
  GroundInput /\ ~InputSatisfiable /\ pc # "none" =>
    /\ pc # "saturated"
    /\ Returned /\ pc # "limit" => found

(***************************************************************************)
(* _call_llm (src/llm/client.py, lines 67-112)                             *)
(*                                                                         *)
(* A fourth specification makes one call of _call_llm.  The client is the  *)
(* environment: every call of client.chat.completions.create returns some  *)
(* response or raises.  Model names and prompts are opaque strings; the    *)
(* content of a response is a str as above.                                *)
(***************************************************************************)
\* longest list MODELS
MaxModels == 2

ModelNames == {ShippedMODELS[n] : n \in 1..Len(ShippedMODELS)}
ModelLists(n) == UNION {[1..m -> ModelNames] : m \in 0..n}

\* user_id of the modelled calls: None, "" and "42"
UserIds == {None, Some(<<>>), Some(<<"4", "2">>)}

LLMCall(system_prompt, user_text, user_id) ==
  [fn |-> "_call_llm", system_prompt |-> system_prompt,
   user_text |-> user_text, user_id |-> user_id]

\* truth value of an Optional[str]
Truthy(v) == v.some /\ v.value # <<>>

\* lines 75-78
messages ==
  <<[role |-> "system", content |-> call.system_prompt],
    [role |-> "user", content |-> call.user_text]>>

\* lines 80-82
extra_headers ==
  IF Truthy(call.user_id)
  THEN [h \in {"X-Title"} |->
          <<"t", "g", "-", "u", "s", "e", "r", "-">> \o call.user_id.value]
  ELSE EmptyMapping

\* the arguments of create, lines 90-92
Request(name) ==
  [model |-> name,
   messages |-> messages,
   extra_headers |-> IF DOMAIN extra_headers = {} THEN None
                     ELSE Some(extra_headers)]

\* message.content of the modelled responses: None, "", "ok", " ok "
Contents ==
  {None, Some(<<>>), Some(<<"o", "k">>), Some(<<" ", "o", "k", " ">>)}

Choice(content) == [message |-> [content |-> content]]

\* the modelled responses: no choice, one choice, two choices
Responses ==
  {[choices |-> <<>>]}
    \cup {[choices |-> <<Choice(c)>>] : c \in Contents}
    \cup {[choices |-> <<Choice(Some(<<"o", "k">>)), Choice(Some(<<"n", "o">>))>>]}

\* what create raises
APIErrors == {[type |-> "APIError", message |-> "rate limit exceeded"]}
OtherErrors == {[type |-> "TimeoutError", message |-> "timed out"]}
\* raised by line 95 on a response without choices
IndexError == [type |-> "IndexError", message |-> "list index out of range"]
\* a BaseException that is no Exception: the task awaiting create is cancelled
CancelledError == [type |-> "CancelledError", message |-> ""]

\* line 59, raised by _get_client
MissingKeyError ==
  [type |-> "RuntimeError",
   message |-> "OPENROUTER_API_KEY is not set in environment"]
\* lines 107-110: the message names the models and the last error, and the
\* last error is the cause
AllModelsFailedError(models, error) ==
  [type |-> "RuntimeError", models |-> models,
   last_error |-> error.message, cause |-> error]
\* line 112 (the message says the list of models is empty)
EmptyListError == [type |-> "RuntimeError", message |-> "model list is empty"]

LLMReturn(value) == [tag |-> "return", value |-> value]
LLMRaise(error) == [tag |-> "raise", error |-> error]

\* lines 95-97: (choices[0].message.content or "").strip()
ContentOf(response) ==
  LET content == response.choices[1].message.content
  IN  Strip(IF Truthy(content) THEN content.value ELSE <<>>)

InitLLM ==
  /\ NoInvocation
  /\ call \in {LLMCall("system prompt", "user text", u) : u \in UserIds}
  /\ ret = NotReturned
  /\ MODELS \in ModelLists(MaxModels)
  /\ llm_pc = "client"
  /\ model = 1
  /\ last_error = None
  /\ requests = <<>>

\* line 73, _get_client returns; lines 75-84
GetClient ==
  /\ llm_pc = "client"
  /\ last_error' = None
  /\ llm_pc' = "for"
  /\ UNCHANGED <<locals, call, ret, other, active, MODELS, model, requests>>

\* line 73, _get_client raises (line 59): nothing in _call_llm catches it
GetClientRaises ==
  /\ llm_pc = "client"
  /\ ret' = LLMRaise(MissingKeyError)
  /\ llm_pc' = "raised"
  /\ UNCHANGED <<locals, call, other, active, MODELS, model, last_error, requests>>

\* the for loop of line 87 has a current model
InLoop == llm_pc = "for" /\ model <= Len(MODELS)

\* line 89: create is called for the current model and ends with outcome
Create(outcome) ==
  requests' = Append(requests, [request |-> Request(MODELS[model]),
                                outcome |-> outcome])

\* lines 89-97: create returns a response with a choice
ModelAnswers ==
  /\ InLoop
  /\ \E r \in Responses :
       /\ r.choices # <<>>
       /\ Create([kind |-> "response", response |-> r])
       /\ ret' = LLMReturn(ContentOf(r))
  /\ llm_pc' = "returned"
  /\ UNCHANGED <<locals, call, other, active, MODELS, model, last_error>>

\* a variant of lines 99-101 that gives up at the first APIError
APIErrorCaught_GivesUp ==
  /\ InLoop
  /\ \E e \in APIErrors :
       /\ Create([kind |-> "raise", error |-> e])
       /\ last_error' = e
       /\ ret' = LLMRaise(AllModelsFailedError(MODELS, e))
  /\ llm_pc' = "raised"
  /\ UNCHANGED <<locals, call, other, active, MODELS, model>>

\* lines 89, 99-101: create raises an APIError
APIErrorCaught ==
  /\ InLoop
  /\ \E e \in APIErrors :
       /\ Create([kind |-> "raise", error |-> e])
       /\ last_error' = e
  /\ model' = model + 1
  /\ UNCHANGED <<locals, call, ret, other, active, MODELS, llm_pc>>

\* lines 89-95, 102-104: create raises another Exception, or its response
\* has no choice and line 95 raises IndexError
ExceptionCaught ==
  /\ InLoop
  /\ \/ \E e \in OtherErrors :
          /\ Create([kind |-> "raise", error |-> e])
          /\ last_error' = e
     \/ /\ Create([kind |-> "response", response |-> [choices |-> <<>>]])
        /\ last_error' = IndexError
  /\ model' = model + 1
  /\ UNCHANGED <<locals, call, ret, other, active, MODELS, llm_pc>>

\* line 89: the awaiting task is cancelled; CancelledError is no Exception
\* and leaves _call_llm
Cancelled ==
  /\ InLoop
  /\ Create([kind |-> "raise", error |-> CancelledError])
  /\ ret' = LLMRaise(CancelledError)
  /\ llm_pc' = "raised"
  /\ UNCHANGED <<locals, call, other, active, MODELS, model, last_error>>

\* the for loop is exhausted
LoopDone == llm_pc = "for" /\ model > Len(MODELS)

\* lines 106-110; an exception object is true
AllModelsFailed ==
  /\ LoopDone
  /\ last_error # None
  /\ ret' = LLMRaise(AllModelsFailedError(MODELS, last_error))
  /\ llm_pc' = "raised"
  /\ UNCHANGED <<locals, call, other, active, MODELS, model, last_error, requests>>

\* line 112
ModelListEmpty ==
  /\ LoopDone
  /\ last_error = None
  /\ ret' = LLMRaise(EmptyListError)
  /\ llm_pc' = "raised"
  /\ UNCHANGED <<locals, call, other, active, MODELS, model, last_error, requests>>

NextLLM ==
  \/ GetClient
  \/ GetClientRaises
  \/ ModelAnswers
  \/ APIErrorCaught
  \/ ExceptionCaught
  \/ Cancelled
  \/ AllModelsFailed
  \/ ModelListEmpty

SpecLLM == InitLLM /\ [][NextLLM]_vars

\* the n-th call of create failed: it raised, or line 95 raised on its response
Failed(n) ==
  \/ requests[n].outcome.kind = "raise"
  \/ requests[n].outcome.response.choices = <<>>
\* the exception that ended the n-th pass of the loop
FailureOf(n) ==
  IF requests[n].outcome.kind = "raise" THEN requests[n].outcome.error
  ELSE IndexError

\* C22: _call_llm tries the models of MODELS strictly in list order: the
\* n-th call of create is for MODELS[n], and is made only after every earlier
\* call failed.  When it returns, the last call made succeeded and the value
\* returned is that call's content (None read as "", stripped).  It raises
\* the RuntimeError that carries the last failure only when the list is not
\* empty and a call was made for every model and failed.  With the shipped
\* MODELS the "model list is empty" error is never raised.
C22_ModelsTriedInOrderUntilFirstSuccess ==
  llm_pc # "none" =>
    /\ Len(requests) <= Len(MODELS)
    /\ \A n \in 1..Len(requests) :
         /\ requests[n].request.model = MODELS[n]
         /\ n < Len(requests) => Failed(n)
    /\ llm_pc = "returned" =>
         /\ requests # <<>>
         /\ ~Failed(Len(requests))
         /\ ret = LLMReturn(ContentOf(requests[Len(requests)].outcome.response))
    /\ (ret.tag = "raise" /\ "cause" \in DOMAIN ret.error) =>
         /\ MODELS # <<>>
         /\ Len(requests) = Len(MODELS)
         /\ \A n \in 1..Len(requests) : Failed(n)
         /\ ret.error = AllModelsFailedError(MODELS, FailureOf(Len(requests)))
    /\ MODELS = ShippedMODELS => ret # LLMRaise(EmptyListError)

\* C22 witness: with the shipped MODELS the first model failed and the
\* second answered
C22_Witness ==
  /\ MODELS = ShippedMODELS
  /\ llm_pc = "returned"
  /\ Len(requests) = 2
  /\ requests[2].request.model = ShippedMODELS[2]

(***************************************************************************)
(* Two runs of resolution_proof on the same input, one after the other     *)
(*                                                                         *)
(* A fifth specification runs resolution_proof to its end, keeps what the  *)
(* run left in `other`, and runs it again on the same clauses.  Each run   *)
(* enumerates its sets in orders of its own.                               *)
(***************************************************************************)
\* ["P(x, y, x)", "~P(y, x, K)", "~P(A, A, A)"]: the first clause closes with
\* the third and sends unify into unbounded recursion with the second
RebindingOrContradictionInput ==
  <<<<"P", "(", "x", ",", " ", "y", ",", " ", "x", ")">>,
    <<"~", "P", "(", "y", ",", " ", "x", ",", " ", "K", ")">>,
    <<"~", "P", "(", "A", ",", " ", "A", ",", " ", "A", ")">>>>

TwoRunInputs ==
  {ContradictionInput, DerivationInput, RebindingInput,
   RebindingOrContradictionInput}

\* resolution_proof has returned or raised
Ended == Returned \/ pc = "raised"

InitTwoRuns ==
  /\ InitFor(TwoRunInputs)
  /\ other = NewFrame(clauses)
  /\ active = 1
  /\ call = NoCall
  /\ ret = NotReturned
  /\ NoLLMCall

\* the first run has ended: the second begins
RunAgain ==
  /\ active = 1
  /\ Ended
  /\ Switch

\* the inputs of TwoRunInputs end well before max_iterations passes
NextTwoRuns ==
  \/ Start
  \/ BeginPass
  \/ SkipEqualPair
  \/ ResolvePair
  \/ ResolveRaises
  \/ Contradiction
  \/ AddResolvent
  \/ KnownResolvent
  \/ Saturated
  \/ NextPass
  \/ RunAgain

SpecTwoRuns == InitTwoRuns /\ [][NextTwoRuns]_vars

\* C23: the result of resolution_proof is independent of enumeration order:
\* two runs on the same input, each enumerating all_clauses and new_clauses
\* in orders of its own, end in the same way (found, saturated, iteration
\* limit), so with the same found value.
C23_OutcomeIndependentOfOrder ==
  (/\ other # NoFrame
   /\ other.clauses = clauses
   /\ Ended
   /\ other.pc \in {"found", "saturated", "limit", "raised"})
    => pc = other.pc

(***************************************************************************)
(* Clause IDs in the log of resolution_proof                               *)
(***************************************************************************)
\* the IDs shown in the log
IdsShown == {log[m].ref.id : m \in ClauseLines}

\* the lines that end a step block
ResultLines == {m \in 1..Len(log) : log[m].kind = "result"}

\* a step (resolution or contradiction) is logged: five lines are appended,
\* the last of them the result line
StepLogged ==
  /\ Len(log') = Len(log) + 5
  /\ log'[Len(log')].kind = "result"

\* C24: when a step (resolution or contradiction) is logged, both source
\* clauses carry IDs that the log showed before the step and the result
\* carries the next unused ID, greater than both source IDs; and the IDs
\* shown in a log are exactly 1..n.
C24_StepIdsAssignedInOrder ==
  [][/\ IdsShown' = 1..Cardinality(IdsShown')
     /\ StepLogged =>
          LET m       == Len(log')
              source1 == log'[m - 3].ref.id
              source2 == log'[m - 2].ref.id
              result  == log'[m].ref.id
          IN  /\ log'[m - 4].kind = "step"
              /\ log'[m - 3].kind = "clause1"
              /\ log'[m - 2].kind = "clause2"
              /\ source1 \in IdsShown
              /\ source2 \in IdsShown
              /\ result = Cardinality(IdsShown) + 1
              /\ result = next_clause_id
              /\ result > source1
              /\ result > source2]_vars

\* C24 witness: a log with a resolution step and, after it, a contradiction
\* step that has the derived clause as a source
C24_Witness ==
  /\ found
  /\ step_num >= 2
  /\ \E m \in ResultLines :
       /\ log[m].contradiction
       /\ \/ log[m - 3].ref.id > Len(clause_objects)
          \/ log[m - 2].ref.id > Len(clause_objects)

=============================================================================
